---- MODULE Spec2Model ----
(***************************************************************************)
(* Model of get_nppez_records.py: locate the latest Monthly NPPES V2 zip   *)
(* on the CMS index page, download it, pick the main CSV member, stream it *)
(* in chunks through the "active" and "Delaware" filters and append the    *)
(* surviving rows to the output CSV.                                       *)
(*                                                                         *)
(* Text is modelled as a sequence of tokens.  A token is either a single   *)
(* blank or a run of characters without blanks; the token sets used for    *)
(* URLs and member names are prefix-free, so that comparing two token      *)
(* sequences token by token agrees with comparing the strings character by *)
(* character.                                                              *)
(***************************************************************************)
EXTENDS Integers, Sequences, FiniteSets, TLC

(***************************************************************************)
(* Bounds of the exploration.                                              *)
(***************************************************************************)
MaxLinks == 3       \* hyperlinks on an index page
MaxMembers == 2     \* entries of an archive
MaxSize == 2        \* uncompressed size of an entry
MaxRows == 2        \* data rows of the CSV member
MaxChunk == 3       \* rows per chunk (CHUNK_SIZE scaled down)

Range(s) == {s[i] : i \in 1..Len(s)}

SeqsUpTo(S, n) == UNION {[1..k -> S] : k \in 0..n}

(***************************************************************************)
(* Python str methods on token sequences.                                  *)
(***************************************************************************)
Whitespace == {" "}

RECURSIVE lstrip(_)
lstrip(t) == IF t # <<>> /\ Head(t) \in Whitespace THEN lstrip(Tail(t)) ELSE t

RECURSIVE rstrip(_)
rstrip(t) ==
  IF t # <<>> /\ t[Len(t)] \in Whitespace THEN rstrip(SubSeq(t, 1, Len(t) - 1)) ELSE t

strip(t) == rstrip(lstrip(t))

LowerTok(c) ==
  CASE c = "DE" -> "de"
    [] c = "De" -> "de"
    [] c = "NY" -> "ny"
    [] c = "NaN" -> "nan"
    [] c = "NAN" -> "nan"
    [] c = "None" -> "none"
    [] c = "NONE" -> "none"
    [] c = "NULL" -> "null"
    [] c = "NPPES_Data_Dissemination_" -> "nppes_data_dissemination_"
    [] c = "NPPES_Deactivated_NPI_Report_" -> "nppes_deactivated_npi_report_"
    [] c = "January_2024" -> "january_2024"
    [] c = "February_2024" -> "february_2024"
    [] c = "_V2" -> "_v2"
    [] c = ".ZIP" -> ".zip"
    [] c = "NPIDATA_PFILE_" -> "npidata_pfile_"
    [] c = "_FileHeader" -> "_fileheader"
    [] c = ".CSV" -> ".csv"
    [] OTHER -> c

UpperTok(c) ==
  CASE c = "de" -> "DE"
    [] c = "De" -> "DE"
    [] c = "ny" -> "NY"
    [] c = "nan" -> "NAN"
    [] c = "NaN" -> "NAN"
    [] c = "none" -> "NONE"
    [] c = "None" -> "NONE"
    [] c = "null" -> "NULL"
    [] OTHER -> c

lower(t) == [i \in 1..Len(t) |-> LowerTok(t[i])]

upper(t) == [i \in 1..Len(t) |-> UpperTok(t[i])]

(***************************************************************************)
(* Module constants of the script.                                         *)
(***************************************************************************)
INDEX_BASE == "https://download.cms.gov/nppes/"

FILTER_STATE == <<"DE">>

DEACTIVATION_COLS == << <<"NPI Deactivation Date">> >>

STATE_COLS ==
  << <<"Provider Business Practice Location Address State">>,
     <<"Provider Business Practice Location State">>,
     <<"Provider Business Practice Location Address State Name">> >>

None == <<>>

(***************************************************************************)
(* Python's ordering of str: code point by code point.  UrlTokens lists    *)
(* the tokens of URLs in that order.                                       *)
(***************************************************************************)
UrlTokens ==
  << ".ZIP", ".pdf", ".zip", "February_2024", "January_2024",
     "NPPES_Data_Dissemination_", "NPPES_Deactivated_NPI_Report_",
     "_V2", "_v.2", "http://mirror.example/", "https://download.cms.gov/nppes/",
     "nppes_data_dissemination_" >>

TokRank(c) == CHOOSE k \in 1..Len(UrlTokens) : UrlTokens[k] = c

RECURSIVE str_lt(_, _)
str_lt(a, b) ==
  IF b = <<>> THEN FALSE
  ELSE IF a = <<>> THEN TRUE
  ELSE IF Head(a) = Head(b) THEN str_lt(Tail(a), Tail(b))
  ELSE TokRank(Head(a)) < TokRank(Head(b))

\* sorted(candidates, reverse=True): a stable sort, greatest first
RECURSIVE insert_desc(_, _)
insert_desc(x, s) ==
  IF s = <<>> THEN <<x>>
  ELSE IF str_lt(Head(s), x) THEN <<x>> \o s
  ELSE <<Head(s)>> \o insert_desc(x, Tail(s))

RECURSIVE sorted_reverse(_)
sorted_reverse(s) ==
  IF s = <<>> THEN <<>>
  ELSE insert_desc(s[Len(s)], sorted_reverse(SubSeq(s, 1, Len(s) - 1)))

(***************************************************************************)
(* find_latest_monthly_v2                                                  *)
(***************************************************************************)
startswith_http(u) ==
  u # <<>> /\ Head(u) \in {"http://mirror.example/", "https://download.cms.gov/nppes/"}

\* links = [a.get("href") ... if a.get("href")], then made absolute
resolve_links(hrefs) ==
  LET present == SelectSeq(hrefs, LAMBDA u : u # <<>>)
  IN  [k \in 1..Len(present) |->
         IF startswith_http(present[k]) THEN present[k]
         ELSE <<INDEX_BASE>> \o present[k]]

\* re.compile(r"NPPES_Data_Dissemination.*?(V2|V\.2).*?\.zip$", re.I).search(u)
pat_search(u) ==
  LET l == lower(u)
  IN  \E a \in 1..Len(l), b \in 1..Len(l) :
        /\ a < b
        /\ b < Len(l)
        /\ l[a] = "nppes_data_dissemination_"
        /\ l[b] \in {"_v2", "_v.2"}
        /\ l[Len(l)] = ".zip"

candidates_of(ls) == SelectSeq(ls, pat_search)

\* faulty variant: sorted(candidates)[0], the least link
first_sorted_ascending(cands) == sorted_reverse(cands)[Len(cands)]

\* sorted(candidates, reverse=True)[0]
latest_of(cands) == sorted_reverse(cands)[1]

(***************************************************************************)
(* Member locator of main()                                                *)
(***************************************************************************)
namelist(z) == [k \in 1..Len(z) |-> z[k].name]

file_size(z, n) == z[CHOOSE k \in 1..Len(z) : z[k].name = n].file_size

endswith_csv(n) == n # <<>> /\ lower(n)[Len(n)] = ".csv"

has_marker(n) == \E k \in 1..Len(n) : lower(n)[k] = "npidata_pfile_"

csv_names_of(z) == SelectSeq(namelist(z), endswith_csv)

\* max(csv_names, key=file_size): the first entry of the greatest size
max_by_size(z, names) ==
  names[CHOOSE k \in 1..Len(names) :
          \A m \in 1..Len(names) :
            /\ file_size(z, names[m]) <= file_size(z, names[k])
            /\ (m < k => file_size(z, names[m]) < file_size(z, names[k]))]

\* faulty variant: the largest entry, whatever its name
locate_largest(z) == max_by_size(z, csv_names_of(z))

\* next((n for n in csv_names if marker in n.lower()), None), else the largest
locate_main_csv(z) ==
  LET marked == SelectSeq(csv_names_of(z), has_marker)
  IN  IF marked # <<>> THEN marked[1] ELSE max_by_size(z, csv_names_of(z))

(***************************************************************************)
(* pandas: read_csv(dtype=str), astype(str), to_csv                        *)
(***************************************************************************)
\* default na_values of read_csv: such a cell is read as NaN, also with dtype=str
NaValues ==
  { <<>>, <<"NaN">>, <<"nan">>, <<"NA">>, <<"N/A">>, <<"NULL">>, <<"null">>, <<"None">> }

NaN == [na |-> TRUE, text |-> <<>>]

read_cell(raw) == IF raw \in NaValues THEN NaN ELSE [na |-> FALSE, text |-> raw]

read_row(raw) == [j \in 1..Len(raw) |-> read_cell(raw[j])]

\* Series.astype(str): NaN becomes the text "nan"
astype_str(v) == IF v.na THEN <<"nan">> ELSE v.text

\* to_csv writes NaN as the empty field (na_rep = "")
csv_field(v) == IF v.na THEN <<>> ELSE v.text

Min(a, b) == IF a < b THEN a ELSE b

\* the rows lo..hi of the member, as one chunk of the reader
read_chunk(f, lo, hi) == [r \in 1..(hi - lo + 1) |-> read_row(f.rows[lo + r - 1])]

\* df.columns = [c.strip() for c in df.columns]
strip_columns(cols) == [j \in 1..Len(cols) |-> strip(cols[j])]

\* faulty variant: next((c for c in df.columns if c in aliases), None)
first_in_header(aliases, cols) ==
  IF \E j \in 1..Len(cols) : cols[j] \in Range(aliases)
  THEN cols[CHOOSE j \in 1..Len(cols) :
              /\ cols[j] \in Range(aliases)
              /\ \A m \in 1..(j - 1) : cols[m] \notin Range(aliases)]
  ELSE None

\* next((c for c in aliases if c in df.columns), None)
first_present(aliases, cols) ==
  IF \E k \in 1..Len(aliases) : aliases[k] \in Range(cols)
  THEN aliases[CHOOSE k \in 1..Len(aliases) :
                 /\ aliases[k] \in Range(cols)
                 /\ \A m \in 1..(k - 1) : aliases[m] \notin Range(cols)]
  ELSE None

\* df[c] is a Series only if exactly one column is named c
is_series(cols, c) == Cardinality({j \in 1..Len(cols) : cols[j] = c}) = 1

cell(cols, row, c) == row[CHOOSE j \in 1..Len(cols) : cols[j] = c]

\* faulty variant: s == "" only
empty_only(v) == strip(astype_str(v)) = <<>>

\* s = df[deact_col].astype(str).str.strip(); (s == "") | s.str.lower().isin(["nan", "none"])
active_mask(v) ==
  LET s == strip(astype_str(v))
  IN  s = <<>> \/ lower(s) \in {<<"nan">>, <<"none">>}

\* df[state_col].astype(str).str.upper().str.strip() == FILTER_STATE
state_mask(v) == strip(upper(astype_str(v))) = FILTER_STATE

filter_active(cols, rows, c) ==
  IF c # None THEN SelectSeq(rows, LAMBDA r : active_mask(cell(cols, r, c))) ELSE rows

filter_state(cols, rows, c) ==
  IF c # None THEN SelectSeq(rows, LAMBDA r : state_mask(cell(cols, r, c))) ELSE rows

header_line(cols) == [kind |-> "header", fields |-> cols]

row_line(row) == [kind |-> "row", fields |-> [j \in 1..Len(row) |-> csv_field(row[j])]]

\* faulty variant: header=True
always_header(hw) == TRUE

\* header=(not header_written)
header_arg(hw) == ~hw

\* faulty variant: mode="w"
overwrite(file, lines) == lines

\* mode="a"
append(file, lines) == file \o lines

\* df.to_csv(OUTPUT_CSV, mode="a", index=False, header=...)
to_csv(file, cols, rows, header) ==
  append(file,
         (IF header THEN <<header_line(cols)>> ELSE <<>>)
           \o [r \in 1..Len(rows) |-> row_line(rows[r])])

\* faulty variant: the output is not truncated
keep_file(file) == file

\* open(OUTPUT_CSV, "w").close()
truncate(file) == <<>>

\* faulty variant: header_written = not header_written
toggled(hw) == ~hw

\* header_written = True
header_written_after(hw) == TRUE

\* faulty variant: counts the rows read, not the rows kept
count_chunk_rows(t, chunk, rows) == t + Len(chunk)

\* total += len(df)
add_total(t, chunk, rows) == t + Len(rows)

(***************************************************************************)
(* The inputs of a run: the index page, the archive, the CSV member.       *)
(***************************************************************************)
Hrefs ==
  { <<"NPPES_Data_Dissemination_", "January_2024", "_V2", ".zip">>,
    <<"NPPES_Data_Dissemination_", "February_2024", "_V2", ".zip">>,
    <<"https://download.cms.gov/nppes/", "nppes_data_dissemination_",
      "January_2024", "_v.2", ".ZIP">>,
    <<"http://mirror.example/", "NPPES_Data_Dissemination_", "January_2024",
      "_V2", ".zip">>,
    <<"NPPES_Data_Dissemination_", "January_2024", ".zip">>,
    <<"NPPES_Deactivated_NPI_Report_", "January_2024", "_V2", ".zip">>,
    <<"NPPES_Data_Dissemination_", "January_2024", "_V2", ".pdf">>,
    <<>> }

\* the answer to a GET of the index page: a failure, or the hrefs of its anchors
IndexResponses(v) ==
  IF v = "index"
  THEN {[ok |-> FALSE, hrefs |-> <<>>]}
         \cup {[ok |-> TRUE, hrefs |-> h] : h \in SeqsUpTo(Hrefs, MaxLinks)}
  ELSE {[ok |-> TRUE,
         hrefs |-> << <<"NPPES_Data_Dissemination_", "January_2024", "_V2", ".zip">> >>]}

MemberNames ==
  { <<"npidata_pfile_", "20240101-20240107", ".csv">>,
    <<"NPIDATA_PFILE_", "20240101-20240107", "_FileHeader", ".CSV">>,
    <<"othersmall", ".csv">>,
    <<"endpoint_pfile_", "20240101-20240107", ".csv">>,
    <<"readme", ".pdf">> }

Members == [name : MemberNames, file_size : 1..MaxSize]

Listings ==
  {z \in SeqsUpTo(Members, MaxMembers) :
     \A a \in 1..Len(z), b \in 1..Len(z) : z[a].name = z[b].name => a = b}

\* the answer to a GET of the archive: a failure (HTTP error, not a zip), or its entries
ArchiveResponses(v) ==
  IF v = "archive"
  THEN {[ok |-> FALSE, members |-> <<>>]}
         \cup {[ok |-> TRUE, members |-> z] : z \in Listings}
  ELSE {[ok |-> TRUE,
         members |-> << [name |-> <<"npidata_pfile_", "20240101-20240107", ".csv">>,
                         file_size |-> MaxSize] >>]}

NPI == <<"NPI">>

Headers ==
  { <<NPI, DEACTIVATION_COLS[1], STATE_COLS[1]>>,
    <<NPI, STATE_COLS[3]>>,
    <<NPI, <<" ">> \o DEACTIVATION_COLS[1]>>,
    <<NPI, STATE_COLS[2], STATE_COLS[1] \o <<" ">> >>,
    <<NPI>> }

\* two columns that carry the same name once trimmed
ClashingHeader == <<NPI, DEACTIVATION_COLS[1], DEACTIVATION_COLS[1] \o <<" ">> >>

DeactCells == { <<>>, <<"2020-01-01">>, <<"None", " ">>, <<"NULL">> }

StateCells == { <<"DE">>, <<" ", "de">>, <<"NY">> }

CellsOf(name) ==
  IF strip(name) \in Range(DEACTIVATION_COLS) THEN DeactCells ELSE StateCells

\* the cells of a row after its NPI
TailsOf(h) ==
  {c \in [1..(Len(h) - 1) -> DeactCells \cup StateCells] :
     \A j \in 1..(Len(h) - 1) : c[j] \in CellsOf(h[j + 1])}

\* bad is the number of a row the parser rejects (0: none)
FilesOf(h, most) ==
  UNION { {[columns |-> h,
            rows |-> [r \in 1..n |-> << <<ToString(r)>> >> \o tails[r]],
            bad |-> b] : tails \in [1..n -> TailsOf(h)], b \in {0, n}}
          : n \in 0..most }

EmptyFile == [columns |-> <<>>, rows |-> <<>>, bad |-> 0]

ExampleFile ==
  [columns |-> <<NPI, DEACTIVATION_COLS[1], STATE_COLS[1]>>,
   rows |-> << << <<"1">>, <<>>, <<"DE">> >>,
               << <<"2">>, <<"2020-01-01">>, <<"DE">> >>,
               << <<"3">>, <<>>, <<"NY">> >> >>,
   bad |-> 0]

CsvFiles(v) ==
  IF v = "csv"
  THEN {EmptyFile, ExampleFile}
         \cup UNION {FilesOf(h, MaxRows) : h \in Headers}
         \cup FilesOf(ClashingHeader, 1)
  ELSE {ExampleFile}

StaleLine == [kind |-> "old", fields |-> << <<"stale">> >>]

(***************************************************************************)
(* State                                                                   *)
(***************************************************************************)
VARIABLES
  vary,            \* which input this exploration draws from its full set
  CHUNK_SIZE,      \* rows per pandas chunk
  pc,              \* position of the run
  links,           \* find_latest_monthly_v2: the absolute links of the page
  url,             \* main: the selected archive
  zf,              \* main: the entries of the archive
  main_csv,        \* main: the selected member
  csv,             \* the content of the member being streamed
  pos,             \* rows of the member consumed by the reader
  i,               \* number of the last chunk
  last,            \* the last chunk: as read, as filtered, and the columns used
  header_written,
  total,
  out,             \* the lines of OUTPUT_CSV
  out0,            \* the lines of OUTPUT_CSV before the run
  stdout,
  stderr,
  exit_status,     \* <<>> while the process runs, then <<status>>
  failed_at        \* where the exception was raised

vars ==
  <<vary, CHUNK_SIZE, pc, links, url, zf, main_csv, csv, pos, i, last,
    header_written, total, out, out0, stdout, stderr, exit_status, failed_at>>

NoChunk == [n |-> 0, columns |-> <<>>, df_in |-> <<>>, df_out |-> <<>>,
            deact_col |-> None, state_col |-> None]

Init ==
  /\ vary \in {"index", "archive", "csv"}
  /\ CHUNK_SIZE \in (IF vary = "csv" THEN 1..MaxChunk ELSE {MaxChunk})
  /\ pc = "not_started"
  /\ links = <<>>
  /\ url = None
  /\ zf = <<>>
  /\ main_csv = None
  /\ csv = EmptyFile
  /\ pos = 0
  /\ i = 0
  /\ last = NoChunk
  /\ header_written = FALSE
  /\ total = 0
  /\ out \in {<<>>, <<StaleLine, StaleLine>>}
  /\ out0 = out
  /\ stdout = <<>>
  /\ stderr = <<>>
  /\ exit_status = <<>>
  /\ failed_at = "nowhere"

say(msg, text, nums) == [msg |-> msg, text |-> text, nums |-> nums]

\* main() returns and the interpreter exits
exit_success == 0

\* faulty variant: sys.exit(0)
exit_as_success == exit_success

\* sys.exit(1)
exit_error == 1

\* except Exception as e: print("ERROR:", e, file=sys.stderr); sys.exit(1)
Raise(e) ==
  /\ pc' = "aborted"
  /\ failed_at' = pc
  /\ stderr' = Append(stderr, say("ERROR:", <<e>>, <<>>))
  /\ exit_status' = <<exit_error>>

(***************************************************************************)
(* url = find_latest_monthly_v2(); print("Latest Monthly V2 file:", url)   *)
(***************************************************************************)
FindLatest ==
  /\ pc = "not_started"
  /\ \E resp \in IndexResponses(vary) :
       IF ~resp.ok
       THEN /\ Raise("HTTPError")
            /\ UNCHANGED <<links, url, stdout>>
       ELSE /\ links' = resolve_links(resp.hrefs)
            /\ IF candidates_of(links') = <<>>
               THEN /\ Raise("Could not find Monthly V2 file on CMS index page")
                    /\ UNCHANGED <<url, stdout>>
               ELSE /\ url' = latest_of(candidates_of(links'))
                    /\ stdout' = Append(stdout, say("Latest Monthly V2 file:", url', <<>>))
                    /\ pc' = "index_resolved"
                    /\ UNCHANGED <<stderr, exit_status, failed_at>>
  /\ UNCHANGED <<vary, CHUNK_SIZE, zf, main_csv, csv, pos, i, last,
                 header_written, total, out, out0>>

(***************************************************************************)
(* resp = http_get(url); zf = zipfile.ZipFile(io.BytesIO(resp.content))    *)
(***************************************************************************)
FetchArchive ==
  /\ pc = "index_resolved"
  /\ \E resp \in ArchiveResponses(vary) :
       IF ~resp.ok
       THEN /\ \E e \in {"HTTPError", "BadZipFile"} : Raise(e)
            /\ UNCHANGED zf
       ELSE /\ zf' = resp.members
            /\ pc' = "archive_fetched"
            /\ UNCHANGED <<stderr, exit_status, failed_at>>
  /\ UNCHANGED <<vary, CHUNK_SIZE, links, url, main_csv, csv, pos, i, last,
                 header_written, total, out, out0, stdout>>

(***************************************************************************)
(* csv_names, main_csv; print("Using CSV:", main_csv)                      *)
(***************************************************************************)
LocateMember ==
  /\ pc = "archive_fetched"
  /\ IF csv_names_of(zf) = <<>>
     THEN /\ Raise("max() arg is an empty sequence")
          /\ UNCHANGED <<main_csv, stdout>>
     ELSE /\ main_csv' = locate_main_csv(zf)
          /\ stdout' = Append(stdout, say("Using CSV:", main_csv', <<>>))
          /\ pc' = "member_located"
          /\ UNCHANGED <<stderr, exit_status, failed_at>>
  /\ UNCHANGED <<vary, CHUNK_SIZE, links, url, zf, csv, pos, i, last,
                 header_written, total, out, out0>>

(***************************************************************************)
(* Truncate the output, reset the counters, open the member and create the *)
(* chunked reader (which parses the header line).                          *)
(***************************************************************************)
BeginStreaming ==
  /\ pc = "member_located"
  /\ out' = truncate(out)
  /\ total' = 0
  /\ header_written' = FALSE
  /\ \E f \in CsvFiles(vary) :
       IF f.columns = <<>>
       THEN /\ Raise("No columns to parse from file")
            /\ UNCHANGED csv
       ELSE /\ csv' = f
            /\ pc' = "streaming"
            /\ UNCHANGED <<stderr, exit_status, failed_at>>
  /\ UNCHANGED <<vary, CHUNK_SIZE, links, url, zf, main_csv, pos, i, last,
                 out0, stdout>>

(***************************************************************************)
(* One iteration of "for i, df in enumerate(chunks, start=1)".             *)
(***************************************************************************)
ProcessChunk ==
  /\ pc = "streaming"
  /\ pos < Len(csv.rows)
  /\ LET lo == pos + 1
         hi == Min(pos + CHUNK_SIZE, Len(csv.rows))
         chunk == read_chunk(csv, lo, hi)
         cols == strip_columns(csv.columns)
         deact_col == first_present(DEACTIVATION_COLS, cols)
         df1 == filter_active(cols, chunk, deact_col)
         state_col == first_present(STATE_COLS, cols)
         df2 == filter_state(cols, df1, state_col)
     IN  IF csv.bad \in lo..hi
         THEN /\ Raise("Error tokenizing data")
              /\ UNCHANGED <<pos, i, last, header_written, total, out, stdout>>
         ELSE IF \/ deact_col # None /\ ~is_series(cols, deact_col)
                 \/ state_col # None /\ ~is_series(cols, state_col)
         THEN /\ Raise("'DataFrame' object has no attribute 'str'")
              /\ UNCHANGED <<pos, i, last, header_written, total, out, stdout>>
         ELSE /\ pos' = hi
              /\ i' = i + 1
              /\ last' = [n |-> i', columns |-> cols, df_in |-> chunk, df_out |-> df2,
                          deact_col |-> deact_col, state_col |-> state_col]
              /\ IF df2 = <<>>
                 THEN UNCHANGED <<header_written, total, out, stdout>>
                 ELSE /\ out' = to_csv(out, cols, df2, header_arg(header_written))
                      /\ header_written' = header_written_after(header_written)
                      /\ total' = add_total(total, chunk, df2)
                      /\ stdout' = Append(stdout,
                                          say("[chunk] wrote rows (total)", <<>>,
                                              <<i', Len(df2), total'>>))
              /\ UNCHANGED <<pc, stderr, exit_status, failed_at>>
  /\ UNCHANGED <<vary, CHUNK_SIZE, links, url, zf, main_csv, csv, out0>>

(***************************************************************************)
(* The reader is exhausted: print the final count; main() returns.         *)
(***************************************************************************)
Finish ==
  /\ pc = "streaming"
  /\ pos = Len(csv.rows)
  /\ stdout' = Append(stdout, say("Done. Wrote rows to", <<"nppes_active_DE_v2_latest.csv">>,
                                  <<total>>))
  /\ pc' = "done"
  /\ exit_status' = <<exit_success>>
  /\ UNCHANGED <<vary, CHUNK_SIZE, links, url, zf, main_csv, csv, pos, i, last,
                 header_written, total, out, out0, stderr, failed_at>>

Next ==
  \/ FindLatest
  \/ FetchArchive
  \/ LocateMember
  \/ BeginStreaming
  \/ ProcessChunk
  \/ Finish

Spec == Init /\ [][Next]_vars

TypeOK ==
  /\ pc \in {"not_started", "index_resolved", "archive_fetched", "member_located",
              "streaming", "done", "aborted"}
  /\ header_written \in BOOLEAN
  /\ total \in 0..Len(csv.rows)
  /\ pos \in 0..Len(csv.rows)
  /\ exit_status \in {<<>>, <<0>>, <<1>>}

(***************************************************************************)
(* Vocabulary of the properties, stated on the member as the reader sees   *)
(* it and independently of the filters of ProcessChunk.                    *)
(***************************************************************************)
Header == strip_columns(csv.columns)

HasColumn(cols, c) == \E j \in 1..Len(cols) : cols[j] = c

\* the value of column c in a row, as text
TextOf(cols, row, c) == astype_str(row[CHOOSE j \in 1..Len(cols) : cols[j] = c])

\* the accepted name used for a predicate: the first of the list that the header has
UsedAlias(aliases, cols) ==
  IF \A k \in 1..Len(aliases) : ~HasColumn(cols, aliases[k])
  THEN None
  ELSE LET least == CHOOSE k \in 1..Len(aliases) :
                      /\ HasColumn(cols, aliases[k])
                      /\ \A m \in 1..Len(aliases) : HasColumn(cols, aliases[m]) => k <= m
       IN  aliases[least]

IsActive(cols, row, c) ==
  \/ c = None
  \/ strip(TextOf(cols, row, c)) = <<>>
  \/ lower(strip(TextOf(cols, row, c))) \in {<<"nan">>, <<"none">>}

InRegion(cols, row, c) ==
  \/ c = None
  \/ upper(strip(TextOf(cols, row, c))) = <<"DE">>

\* the rows 1..n of the member that satisfy both predicates, in input order
KeptUpTo(n) ==
  SelectSeq(read_chunk(csv, 1, n),
            LAMBDA row : /\ IsActive(Header, row, UsedAlias(DEACTIVATION_COLS, Header))
                         /\ InRegion(Header, row, UsedAlias(STATE_COLS, Header)))

HeaderLines == {k \in 1..Len(out) : out[k].kind = "header"}

RowLines == {k \in 1..Len(out) : out[k].kind = "row"}

\* the output has been truncated by this run
Truncated ==
  \/ pc \in {"streaming", "done"}
  \/ pc = "aborted" /\ failed_at \in {"member_located", "streaming"}

\* the run is streaming, or ended while or after streaming
Streamed ==
  \/ pc \in {"streaming", "done"}
  \/ pc = "aborted" /\ failed_at = "streaming"

(***************************************************************************)
(* C1: of every batch, a row is appended to the output if and only if it   *)
(* is active (the trimmed text of the deactivation column is empty, "nan"  *)
(* or "none" in any case) and in region (the trimmed, upper-cased text of  *)
(* the state column is "DE"); the rows of the batch are the kept rows plus *)
(* the dropped rows.                                                       *)
(***************************************************************************)
Satisfies(row) ==
  /\ IsActive(last.columns, row, last.deact_col)
  /\ InRegion(last.columns, row, last.state_col)

C1_RowKeptIffBothPredicates ==
  last.n > 0 =>
    LET kept == Len(last.df_out)
        dropped == Cardinality({r \in 1..Len(last.df_in) : ~Satisfies(last.df_in[r])})
    IN  /\ \A r \in 1..Len(last.df_in) :
             (last.df_in[r] \in Range(last.df_out)) <=> Satisfies(last.df_in[r])
        /\ Len(last.df_in) = kept + dropped
        /\ Len(out) >= kept
        /\ \A r \in 1..kept :
             out[Len(out) - kept + r] = row_line(last.df_out[r])
        /\ \A r \in 1..Len(last.df_in) :
             ~Satisfies(last.df_in[r]) =>
               \A k \in 1..Len(out) : out[k] # row_line(last.df_in[r])

\* the batch of the three rows (1,"",DE), (2,2020-01-01,DE), (3,"",NY) keeps row 1
C1_Witness ==
  /\ last.n = 1
  /\ last.df_in = read_chunk(ExampleFile, 1, 3)
  /\ last.df_out = <<read_row(ExampleFile.rows[1])>>
  /\ out = <<header_line(ExampleFile.columns), row_line(read_row(ExampleFile.rows[1]))>>

(***************************************************************************)
(* C2: the header is written exactly once, by the first batch with a       *)
(* non-empty result, and only if there is such a batch; if every batch is  *)
(* filtered to empty the output stays empty after the truncation.          *)
(***************************************************************************)
C2_HeaderExactlyOnce ==
  Streamed =>
    IF KeptUpTo(pos) = <<>>
    THEN out = <<>> /\ ~header_written
    ELSE /\ header_written
         /\ HeaderLines = {1}
         /\ out[1] = header_line(Header)

\* two batches have written rows, under one header
C2_Witness ==
  /\ pc = "done"
  /\ CHUNK_SIZE = 1
  /\ Len(csv.rows) = 2
  /\ total = 2
  /\ HeaderLines = {1}

(***************************************************************************)
(* C3: find_latest_monthly_v2 returns the greatest, in the order of        *)
(* strings, of the links that match the pattern, and raises when no link   *)
(* matches.                                                                *)
(***************************************************************************)
IndexAnswered == pc # "not_started" /\ ~(failed_at = "not_started" /\ stderr[1].text = <<"HTTPError">>)

Matching == {u \in Range(links) : pat_search(u)}

C3_LatestIsGreatestMatch ==
  IndexAnswered =>
    IF Matching = {}
    THEN /\ pc = "aborted"
         /\ failed_at = "not_started"
         /\ url = None
         /\ stderr[1].text = <<"Could not find Monthly V2 file on CMS index page">>
    ELSE /\ url \in Matching
         /\ \A v \in Matching : ~str_lt(url, v)
         /\ failed_at # "not_started"

\* a page with two different matching links and one that does not match
C3_Witness ==
  /\ pc = "index_resolved"
  /\ Cardinality(Matching) >= 2
  /\ Cardinality(Range(links) \ Matching) >= 1
  /\ \E v \in Matching : str_lt(v, url)

(***************************************************************************)
(* C4: among the entries named *.csv, one that carries the marker          *)
(* npidata_pfile is selected whenever there is one, whatever the sizes and *)
(* the order of the listing; otherwise the largest entry is selected.      *)
(***************************************************************************)
Located ==
  \/ pc \in {"member_located", "streaming", "done"}
  \/ pc = "aborted" /\ failed_at \in {"member_located", "streaming"}

Tabular == {k \in 1..Len(zf) : endswith_csv(zf[k].name)}

C4_MarkerThenLargest ==
  Located =>
    /\ Cardinality({k \in Tabular : zf[k].name = main_csv}) = 1
    /\ IF \E k \in Tabular : has_marker(zf[k].name)
       THEN has_marker(main_csv)
       ELSE \A k \in Tabular : zf[k].file_size <= file_size(zf, main_csv)

\* the marked entry is selected although a larger unmarked entry is listed first
C4_Witness ==
  /\ pc = "member_located"
  /\ has_marker(main_csv)
  /\ Len(zf) = 2
  /\ zf[2].name = main_csv
  /\ endswith_csv(zf[1].name)
  /\ zf[1].file_size > zf[2].file_size

(***************************************************************************)
(* C5, as stated: whenever a run has ended, at done or by a failure in any *)
(* step, the output holds nothing that was there before the run.           *)
(***************************************************************************)
C5_NoLeftoverAfterAnyRun ==
  pc \in {"done", "aborted"} => \A k \in 1..Len(out) : out[k].kind # "old"

(***************************************************************************)
(* C5, amended: the output is truncated when streaming is set up.  A run   *)
(* that got there holds only the header and the rows of this run; a run    *)
(* that failed before (index, archive or member) leaves the output as it   *)
(* was before the run.                                                     *)
(***************************************************************************)
C5_TruncatedBeforeStreaming ==
  /\ Truncated => \A k \in 1..Len(out) : out[k].kind \in {"header", "row"}
  /\ ~Truncated => out = out0

\* a run over an old output that failed while streaming, after it wrote rows
C5_Witness ==
  /\ pc = "aborted"
  /\ failed_at = "streaming"
  /\ out0 # <<>>
  /\ out # <<>>

(***************************************************************************)
(* C6: a run moves not started, index resolved, archive fetched, member    *)
(* located, streaming (header pending, then header written), done, one     *)
(* state at a time and never back; a failure moves it to aborted; nothing  *)
(* happens after done or aborted.                                          *)
(***************************************************************************)
Rank(p) ==
  CASE p = "not_started" -> 0
    [] p = "index_resolved" -> 1
    [] p = "archive_fetched" -> 2
    [] p = "member_located" -> 3
    [] p = "streaming" -> 4
    [] p = "done" -> 5
    [] p = "aborted" -> 6

LinearStep ==
  /\ pc \in {"done", "aborted"} => UNCHANGED vars
  /\ pc' # pc => pc' = "aborted" \/ Rank(pc') = Rank(pc) + 1
  /\ pc' = "aborted" /\ pc # "aborted" => failed_at' = pc /\ exit_status' # <<exit_success>>
  /\ pc = "streaming" /\ header_written => header_written'
  /\ pc' = "streaming" /\ pc # "streaming" => ~header_written'

C6_LinearRun == [][LinearStep]_vars

\* a run that went through every state up to header written, and then failed
C6_Witness ==
  /\ pc = "aborted"
  /\ failed_at = "streaming"
  /\ header_written
  /\ i >= 1

(***************************************************************************)
(* C7: the process exits with status zero exactly when every step          *)
(* succeeded and the final count was printed; any failure, an archive      *)
(* without a tabular member included, prints one diagnostic to the error   *)
(* stream and exits with a non-zero status.                                *)
(***************************************************************************)
C7_ExitStatus ==
  /\ exit_status = <<0>> <=> pc = "done"
  /\ pc = "done" =>
       /\ stderr = <<>>
       /\ stdout[Len(stdout)].msg = "Done. Wrote rows to"
       /\ stdout[Len(stdout)].nums = <<total>>
  /\ pc = "aborted" <=> (exit_status # <<>> /\ exit_status # <<0>>)
  /\ pc = "aborted" => Len(stderr) = 1 /\ stderr[1].msg = "ERROR:"
  /\ pc \notin {"done", "aborted"} => exit_status = <<>> /\ stderr = <<>>
  /\ (/\ pc \notin {"not_started", "index_resolved", "archive_fetched"}
      /\ failed_at \notin {"not_started", "index_resolved"}
      /\ \A k \in 1..Len(zf) : ~endswith_csv(zf[k].name))
       => pc = "aborted" /\ failed_at = "archive_fetched"

\* an archive that lists entries, none of them tabular
C7_Witness ==
  /\ pc = "aborted"
  /\ failed_at = "archive_fetched"
  /\ zf # <<>>
  /\ exit_status = <<1>>

(***************************************************************************)
(* C8: after every batch the running total is the number of data rows in   *)
(* the output, which is the number of rows read so far that satisfy both   *)
(* predicates; the final count printed is that number over all batches.    *)
(***************************************************************************)
C8_TotalCountsOutputRows ==
  /\ Streamed =>
       /\ total = Cardinality(RowLines)
       /\ total = Len(KeptUpTo(pos))
  /\ pc = "done" => stdout[Len(stdout)].nums = <<Len(KeptUpTo(Len(csv.rows)))>>

\* several batches, some rows kept and some dropped
C8_Witness ==
  /\ pc = "done"
  /\ i >= 2
  /\ total >= 1
  /\ total < Len(csv.rows)

(***************************************************************************)
(* C9: a header without any accepted deactivation name makes every row     *)
(* active (filter on region only); a header without any accepted state     *)
(* name applies no region filter; otherwise the name used is the first of  *)
(* the list, in list order, that the header has.                           *)
(***************************************************************************)
C9_AbsentColumnPassesAll ==
  last.n > 0 =>
    LET noDeact == \A k \in 1..Len(DEACTIVATION_COLS) :
                     ~HasColumn(last.columns, DEACTIVATION_COLS[k])
        noState == \A k \in 1..Len(STATE_COLS) : ~HasColumn(last.columns, STATE_COLS[k])
        d == UsedAlias(DEACTIVATION_COLS, last.columns)
        st == UsedAlias(STATE_COLS, last.columns)
    IN  /\ last.deact_col = d
        /\ last.state_col = st
        /\ noDeact =>
             last.df_out = SelectSeq(last.df_in, LAMBDA r : InRegion(last.columns, r, st))
        /\ noState =>
             last.df_out = SelectSeq(last.df_in, LAMBDA r : IsActive(last.columns, r, d))
        /\ noDeact /\ noState => last.df_out = last.df_in

\* no deactivation column, two state columns whose header order is not the list order
C9_Witness ==
  /\ last.n > 0
  /\ last.deact_col = None
  /\ last.columns = <<NPI, STATE_COLS[2], STATE_COLS[1]>>
  /\ last.state_col = STATE_COLS[1]
  /\ Len(last.df_in) = 2
  /\ Len(last.df_out) = 1
  /\ \E r \in 1..2 : last.df_in[r][2] # last.df_in[r][3]

(***************************************************************************)
(* C10: the data rows of the output are the rows of the member that        *)
(* satisfy both predicates, in input order, whatever the chunk size and    *)
(* whatever the output held before; two runs on the same archive write the *)
(* same file.                                                              *)
(***************************************************************************)
ExpectedOutput(n) ==
  LET kept == KeptUpTo(n)
  IN  IF kept = <<>> THEN <<>>
      ELSE <<header_line(Header)>> \o [r \in 1..Len(kept) |-> row_line(kept[r])]

C10_OutputIndependentOfChunks ==
  /\ Streamed => out = ExpectedOutput(pos)
  /\ pc = "done" => out = ExpectedOutput(Len(csv.rows))

\* rows kept from two different batches, written over an old output
C10_Witness ==
  /\ pc = "done"
  /\ CHUNK_SIZE = 1
  /\ i = 2
  /\ Cardinality(RowLines) = 2
  /\ out0 # <<>>

====
